---- MODULE Spec2Model ----
(***************************************************************************)
(* AdGuard client activity analyzer (adguard_activity.py).                 *)
(*                                                                         *)
(* Timestamps are whole seconds since local midnight of the analysed day   *)
(* (collect_events keeps only events whose local date is the target date). *)
(* The pure functions build_blocks, find_active_subblocks and the          *)
(* bucketing part of _print_day_chart are operators; every specification   *)
(* draws the arguments in its Init and applies the functions in its        *)
(* actions.                                                                *)
(***************************************************************************)
EXTENDS Integers, Sequences, FiniteSets, TLC

VARIABLES
    pc,            \* position of the run
    events,        \* sorted list of event timestamps (seconds since midnight)
    gap_minutes,   \* --gap
    min_queries,   \* --min-queries
    min_rate,      \* --active-rate
    idle_gap,      \* --idle-gap
    bin_minutes,   \* bin width handed to find_active_subblocks
    term_cols,     \* os.get_terminal_size().columns
    raw_blocks,    \* build_blocks: raw_blocks at the return
    kept,          \* build_blocks: first returned list
    dropped,       \* build_blocks: second returned list
    subblocks,     \* find_active_subblocks: returned list
    clamped,       \* main: subs after the clamp to the parent block
    active_subblocks, \* main: one clamped list per kept block
    block_k,       \* main: number of kept blocks already processed
    chart,         \* _print_day_chart: what the chart computed
    args,          \* main: the parsed command line
    cfg,           \* main: the loaded config file, a dict
    log,           \* the entries of the query log
    bg_filter,     \* main: resolved bg_filter
    query_filter,  \* main: resolved query_filter
    bg_filtered,   \* collect_events: second returned value
    total_seen,    \* collect_events: third returned value
    group_subdomains, \* adguard_top_domains: main's group_subdomains
    hostname_counts,  \* collect_domain_counts: first returned Counter
    root_counts,      \* collect_domain_counts: second returned Counter
    total_raw,        \* collect_domain_counts: third returned value
    total_filtered    \* print_report: sum(hostname_counts.values())

\* the command line, the config, the log and what main and collect_events
\* derive from them
settingVars == <<args, cfg, log, bg_filter, query_filter, bg_filtered, total_seen>>

\* what adguard_top_domains.py computes from the log
topVars == <<group_subdomains, hostname_counts, root_counts, total_raw,
             total_filtered>>

vars == <<pc, events, gap_minutes, min_queries, min_rate, idle_gap,
          bin_minutes, term_cols, raw_blocks, kept, dropped, subblocks,
          clamped, active_subblocks, block_k, chart, settingVars, topVars>>

----------------------------------------------------------------------------
(* Bounds of the model and constants of the program *)

MaxEvents == 4
MaxGap == 2
MaxMinQueries == 3
MaxSubEvents == 4
MaxRate == 2
MaxIdle == 2
MaxBin == 3
MaxTermCols == 202
MaxChartGap == 5
MaxChartEvents == 1
\* most events of one day of bursts fed to _print_day_chart
MaxBurst == 22
\* most entries of the query log
MaxLogLines == 2
\* lines of the log read by adguard_top_domains.py
MaxTopLines == 3

SecPerMin == 60
GAP_MINUTES == 5
MIN_BLOCK_QUERIES == 5
DEFAULT_ACTIVE_RATE == 5
DEFAULT_IDLE_GAP == 3
DayMinutes == 1440
TermColsCap == 200
Y_W == 7
MinPlotWidth == 24
CHART_H == 8

----------------------------------------------------------------------------
(* Arithmetic helpers *)

Min(a, b) == IF a <= b THEN a ELSE b
Max(a, b) == IF a >= b THEN a ELSE b

\* math.ceil(a / b) for a >= 0, b >= 1
CeilDiv(a, b) == (a + b - 1) \div b

RECURSIVE SumSeq(_)
SumSeq(s) == IF s = <<>> THEN 0 ELSE Head(s) + SumSeq(Tail(s))

\* the events list a start time and a list of successive differences give
RECURSIVE FromDeltas(_, _)
FromDeltas(t, ds) ==
    IF ds = <<>> THEN <<t>> ELSE <<t>> \o FromDeltas(t + Head(ds), Tail(ds))

SeqsUpTo(S, n) == UNION {[1..k -> S] : k \in 0..n}

----------------------------------------------------------------------------
(* build_blocks *)

\* ts - block_end >= gap
IsGapMutStrict(ts, block_end, gap) == ts - block_end > gap
IsGap(ts, block_end, gap) == ts - block_end >= gap

\* one iteration of "for ts in events[1:]"
ScanStepMutKeepEnd(st, ts, gap) ==
    IF IsGap(ts, st.block_end, gap)
    THEN [raw |-> Append(st.raw, [start |-> st.block_start,
                                  end |-> st.block_end,
                                  count |-> st.query_count]),
          block_start |-> ts, block_end |-> ts, query_count |-> 1]
    ELSE [raw |-> st.raw, block_start |-> st.block_start,
          block_end |-> st.block_end, query_count |-> st.query_count + 1]
ScanStep(st, ts, gap) ==
    IF IsGap(ts, st.block_end, gap)
    THEN [raw |-> Append(st.raw, [start |-> st.block_start,
                                  end |-> st.block_end,
                                  count |-> st.query_count]),
          block_start |-> ts, block_end |-> ts, query_count |-> 1]
    ELSE [raw |-> st.raw, block_start |-> st.block_start,
          block_end |-> ts, query_count |-> st.query_count + 1]

RECURSIVE ScanFrom(_, _, _, _)
ScanFrom(evs, i, st, gap) ==
    IF i > Len(evs) THEN st
    ELSE ScanFrom(evs, i + 1, ScanStep(st, evs[i], gap), gap)

\* raw_blocks as it stands at the return of build_blocks
RawBlocks(evs, gapm) ==
    IF evs = <<>> THEN <<>>
    ELSE LET gap == gapm * SecPerMin
             st0 == [raw |-> <<>>, block_start |-> evs[1],
                     block_end |-> evs[1], query_count |-> 1]
             st  == ScanFrom(evs, 2, st0, gap)
         IN  Append(st.raw, [start |-> st.block_start, end |-> st.block_end,
                             count |-> st.query_count])

IsKeptMutStrict(b, minq) == b.count > minq
IsKept(b, minq) == b.count >= minq

KeptOf(raw, minq) == SelectSeq(raw, LAMBDA b : IsKept(b, minq))
DroppedOf(raw, minq) == SelectSeq(raw, LAMBDA b : b.count < minq)

----------------------------------------------------------------------------
(* find_active_subblocks *)

\* "active_start: int | None = None"
None == -1

\* events[0].replace(second=0, microsecond=0), then minus
\* timedelta(minutes=origin.minute % bin_minutes, seconds=origin.second, ...);
\* origin.minute is the minute of the hour
OriginOf(ts, binm) ==
    LET floored == (ts \div SecPerMin) * SecPerMin
        minute  == (floored \div SecPerMin) % 60
    IN  floored - (minute % binm) * SecPerMin

\* int((ts - origin).total_seconds() / 60 / bin_minutes), ts >= origin.
\* The float quotient is exact when it is an integer and otherwise at least
\* 1/(60 * bin_minutes) away from one, so int() is the floor of the exact
\* quotient.
BinIndex(ts, origin, binm) == (ts - origin) \div (SecPerMin * binm)

\* max(bin_counts)
MaxIdx(evs, origin, binm) ==
    LET idxs == {BinIndex(evs[k], origin, binm) : k \in DOMAIN evs}
    IN  CHOOSE i \in idxs : \A j \in idxs : j <= i

\* i -> bin_counts.get(i, 0) for i in range(max_idx + 1)
BinCounts(evs, origin, binm) ==
    [i \in 0..MaxIdx(evs, origin, binm) |->
        Cardinality({k \in DOMAIN evs : BinIndex(evs[k], origin, binm) = i})]

\* hot_threshold = min_rate * bin_minutes
HotThresholdMutPerMinute(rate, binm) == rate
HotThreshold(rate, binm) == rate * binm

\* idle_bins = max(1, math.ceil(idle_gap / bin_minutes))
IdleBins(idle, binm) == Max(1, CeilDiv(idle, binm))

RECURSIVE SumRange(_, _, _)
SumRange(bc, a, l) == IF a > l THEN 0 ELSE bc[a] + SumRange(bc, a + 1, l)

MaxRange(bc, a, l) ==
    CHOOSE m \in {bc[j] : j \in a..l} : \A j \in a..l : bc[j] <= m

\* Python floats are IEEE 754 doubles.  A positive double is held as
\* [hi, lo, exp], the number (hi * 2^27 + lo) * 2^exp with a 53-bit
\* significand: 2^25 <= hi < 2^26 and 0 <= lo < 2^27.  Zero is [0, 0, 0].
HalfWord == 2^27

Log2Floor(n) == CHOOSE j \in 0..30 : 2^j <= n /\ n < 2^(j + 1)

\* the double of significand hi * 2^27 + lo, one unit in the last place
\* higher when up
FloatRound(hi, lo, exp, up) ==
    IF ~up THEN [hi |-> hi, lo |-> lo, exp |-> exp]
    ELSE IF lo + 1 < HalfWord THEN [hi |-> hi, lo |-> lo + 1, exp |-> exp]
    ELSE IF hi + 1 < 2^26 THEN [hi |-> hi + 1, lo |-> 0, exp |-> exp]
    ELSE [hi |-> 2^25, lo |-> 0, exp |-> exp + 1]

\* 1 / bin_minutes: the double nearest to 1 / b (ties to even), 1 <= b <= 15
FloatRecip(b) ==
    LET j    == Log2Floor(b)
        k    == IF b = 2^j THEN 52 + j ELSE 53 + j
        top  == 2^(k - 27)
        rest == (top % b) * HalfWord
        lo   == rest \div b
        rem  == rest % b
    IN  FloatRound(top \div b, lo, 0 - k,
                   2 * rem > b \/ (2 * rem = b /\ lo % 2 = 1))

\* p * x for an integer 0 <= p <= 15 and a double x: the double nearest to
\* the exact product (ties to even)
FloatMulInt(p, x) ==
    IF p = 0 \/ x.hi = 0 THEN [hi |-> 0, lo |-> 0, exp |-> 0]
    ELSE LET l1  == x.lo * p
             h1  == x.hi * p + (l1 \div HalfWord)
             l2  == l1 % HalfWord
             s   == Log2Floor(h1) - 25
             lo  == (h1 % 2^s) * 2^(27 - s) + (l2 \div 2^s)
             rem == l2 % 2^s
         IN  FloatRound(h1 \div 2^s, lo, x.exp + s,
                        s > 0 /\ (2 * rem > 2^s \/ (2 * rem = 2^s /\ lo % 2 = 1)))

\* the tuple (s, e, q, p * (1 / bin_minutes))
SubOfMutRawPeak(bc, origin, binm, a, l) ==
    [start   |-> origin + a * binm * SecPerMin,
     end     |-> origin + (l + 1) * binm * SecPerMin,
     queries |-> SumRange(bc, a, l),
     peak    |-> FloatMulInt(MaxRange(bc, a, l), FloatRecip(1))]
SubOf(bc, origin, binm, a, l) ==
    [start   |-> origin + a * binm * SecPerMin,
     end     |-> origin + (l + 1) * binm * SecPerMin,
     queries |-> SumRange(bc, a, l),
     peak    |-> FloatMulInt(MaxRange(bc, a, l), FloatRecip(binm))]

\* one iteration of "for i in range(max_idx + 1)"
SubStepMutNoReset(st, i, bc, origin, binm, hot, idleb) ==
    IF bc[i] >= hot
    THEN [st EXCEPT !.active_start = IF @ = None THEN i ELSE @,
                    !.last_hot = i, !.cold_run = 0]
    ELSE IF st.active_start # None
         THEN IF st.cold_run + 1 > idleb
              THEN [subs |-> Append(st.subs, SubOf(bc, origin, binm,
                                                   st.active_start, st.last_hot)),
                    active_start |-> st.active_start, last_hot |-> st.last_hot,
                    cold_run |-> 0]
              ELSE [st EXCEPT !.cold_run = @ + 1]
         ELSE st
SubStep(st, i, bc, origin, binm, hot, idleb) ==
    IF bc[i] >= hot
    THEN [st EXCEPT !.active_start = IF @ = None THEN i ELSE @,
                    !.last_hot = i, !.cold_run = 0]
    ELSE IF st.active_start # None
         THEN IF st.cold_run + 1 > idleb
              THEN [subs |-> Append(st.subs, SubOf(bc, origin, binm,
                                                   st.active_start, st.last_hot)),
                    active_start |-> None, last_hot |-> None, cold_run |-> 0]
              ELSE [st EXCEPT !.cold_run = @ + 1]
         ELSE st

RECURSIVE SubScanFrom(_, _, _, _, _, _, _)
SubScanFrom(st, i, bc, origin, binm, hot, idleb) ==
    IF i \notin DOMAIN bc THEN st
    ELSE SubScanFrom(SubStep(st, i, bc, origin, binm, hot, idleb),
                     i + 1, bc, origin, binm, hot, idleb)

FindActiveSubblocks(evs, rate, idle, binm) ==
    IF evs = <<>> THEN <<>>
    ELSE LET origin == OriginOf(evs[1], binm)
             bc     == BinCounts(evs, origin, binm)
             st0    == [subs |-> <<>>, active_start |-> None,
                        last_hot |-> None, cold_run |-> 0]
             st     == SubScanFrom(st0, 0, bc, origin, binm,
                                   HotThreshold(rate, binm), IdleBins(idle, binm))
         IN  IF st.active_start # None /\ st.last_hot # None
             THEN Append(st.subs, SubOf(bc, origin, binm,
                                        st.active_start, st.last_hot))
             ELSE st.subs

----------------------------------------------------------------------------
(* main: the clamp of the sub-blocks to the parent block *)

\* "if min(e, b_end) > max(s, b_start)"
ClampKeepsMutWeak(sub, b_start, b_end) ==
    Min(sub.end, b_end) >= Max(sub.start, b_start)
ClampKeeps(sub, b_start, b_end) ==
    Min(sub.end, b_end) > Max(sub.start, b_start)

\* (max(s, b_start), min(e, b_end), q, p)
ClampOne(sub, b_start, b_end) ==
    [sub EXCEPT !.start = Max(sub.start, b_start), !.end = Min(sub.end, b_end)]

RECURSIVE ClampSubs(_, _, _)
ClampSubs(subs, b_start, b_end) ==
    IF subs = <<>> THEN <<>>
    ELSE (IF ClampKeeps(Head(subs), b_start, b_end)
          THEN <<ClampOne(Head(subs), b_start, b_end)>> ELSE <<>>)
         \o ClampSubs(Tail(subs), b_start, b_end)

----------------------------------------------------------------------------
(* Specification of build_blocks alone *)

\* two events half a minute, one second under the gap, exactly the gap and
\* one second over the gap apart
BlockDeltas(g) == {0, 1, 30, g * SecPerMin - 1, g * SecPerMin, g * SecPerMin + 1}

\* events 10:00:00, 10:00:30, 10:00:45, 10:10:00
ScenarioA == <<36000, 36030, 36045, 36600>>

BlockInputs(g) ==
    {<<>>} \cup {FromDeltas(36000, ds) : ds \in SeqsUpTo(BlockDeltas(g), MaxEvents - 1)}
           \cup {ScenarioA}

Idle ==
    /\ raw_blocks = <<>> /\ kept = <<>> /\ dropped = <<>>
    /\ subblocks = <<>> /\ clamped = <<>> /\ active_subblocks = <<>>
    /\ block_k = 0
    /\ chart = [rendered |-> FALSE]

\* a dict without keys
EmptyDict == [k \in {} |-> None]

\* argparse's defaults: every option None or not set
NoArgs ==
    [gap |-> None, min_queries |-> None, active_rate |-> None,
     idle_gap |-> None, no_bg_filter |-> FALSE,
     domain |-> [given |-> FALSE, name |-> <<>>],
     only_allowed |-> FALSE, only_blocked |-> FALSE]

\* adguard_top_domains.py has not run: empty Counters
NoTop ==
    /\ group_subdomains = TRUE
    /\ hostname_counts = EmptyDict /\ root_counts = EmptyDict
    /\ total_raw = 0 /\ total_filtered = 0

\* the functions are called directly: no command line, config or log
NoSettings ==
    /\ args = NoArgs /\ cfg = EmptyDict /\ log = <<>>
    /\ bg_filter = TRUE /\ query_filter = "all"
    /\ bg_filtered = 0 /\ total_seen = 0
    /\ NoTop

InitBlocks ==
    /\ pc = "start"
    /\ gap_minutes \in (1..MaxGap) \cup {GAP_MINUTES}
    /\ min_queries \in 1..MaxMinQueries
    /\ events \in BlockInputs(gap_minutes)
    /\ min_rate = 0 /\ idle_gap = 0 /\ bin_minutes = 1 /\ term_cols = 0
    /\ Idle
    /\ NoSettings

BuildBlocks ==
    /\ pc = "start"
    /\ raw_blocks' = RawBlocks(events, gap_minutes)
    /\ kept' = KeptOf(raw_blocks', min_queries)
    /\ dropped' = DroppedOf(raw_blocks', min_queries)
    /\ pc' = "blocks"
    /\ UNCHANGED <<events, gap_minutes, min_queries, min_rate, idle_gap,
                   bin_minutes, term_cols, subblocks, clamped,
                   active_subblocks, block_k, chart,
                   settingVars, topVars>>

NextBlocks == BuildBlocks

SpecBlocks == InitBlocks /\ [][NextBlocks]_vars

----------------------------------------------------------------------------
(* Specification of find_active_subblocks on one list of events, followed  *)
(* by the clamp main applies to its result.  In main the list handed over  *)
(* is "be", the events of one block, so b_start = be[0] and b_end = be[-1].*)

\* first events at 00:00:00, 10:00:00, 10:01:30 and 10:59:59
SubStarts == {0, 36000, 36090, 39599}

\* a bin width that does not divide the hour
WideBins == {7}

\* three events at 10:00:00, one at 10:01:00, three at 10:02:00 and two at
\* 10:06:00: a busy minute, a quiet one that is not empty, a busy minute,
\* three empty minutes and a less busy minute
ScenarioQuiet ==
    <<36000, 36000, 36000, 36060, 36120, 36120, 36120, 36360, 36360>>

\* as many events as the bin has minutes, all in the first second of the
\* day, of 10:00, of 10:01:30, of 10:59:59 or of 11:00: with rate 1 their
\* bin is hot
WideBinBursts(binm) == {[k \in 1..binm |-> t] : t \in SubStarts \cup {39600}}

\* successive events in the same second and one to four minutes apart
SubDeltas == {0, 60, 120, 180, 240}

\* six events in each of the minutes 0, 1, 2, 5, 6 after 10:00:00: the bin
\* counts [6,6,6,0,0,6,6]
ScenarioB ==
    [k \in 1..30 |->
        36000 + SecPerMin * (<<0, 1, 2, 5, 6>>[((k - 1) \div 6) + 1]) + ((k - 1) % 6)]

SubInputs ==
    {<<>>} \cup {FromDeltas(t, ds) : t \in SubStarts,
                                     ds \in SeqsUpTo(SubDeltas, MaxSubEvents - 1)}

InitSub ==
    /\ pc = "start"
    /\ \/ /\ events \in SubInputs
          /\ min_rate \in 1..MaxRate
          /\ idle_gap \in 0..MaxIdle
          /\ bin_minutes \in (1..MaxBin) \cup WideBins
       \/ /\ events = ScenarioB
          /\ min_rate = DEFAULT_ACTIVE_RATE /\ idle_gap = 2 /\ bin_minutes = 1
       \/ /\ events = ScenarioQuiet
          /\ min_rate \in 1..MaxRate
          /\ idle_gap \in 0..MaxIdle
          /\ bin_minutes \in 1..MaxBin
       \/ /\ bin_minutes \in WideBins
          /\ events \in WideBinBursts(bin_minutes)
          /\ min_rate = 1
          /\ idle_gap \in 0..MaxIdle
    /\ gap_minutes = GAP_MINUTES /\ min_queries = 1 /\ term_cols = 0
    /\ Idle
    /\ NoSettings

FindSub ==
    /\ pc = "start"
    /\ subblocks' = FindActiveSubblocks(events, min_rate, idle_gap, bin_minutes)
    /\ pc' = "found"
    /\ UNCHANGED <<events, gap_minutes, min_queries, min_rate, idle_gap,
                   bin_minutes, term_cols, raw_blocks, kept, dropped,
                   clamped, active_subblocks, block_k, chart,
                   settingVars, topVars>>

ClampSub ==
    /\ pc = "found"
    /\ events # <<>>
    /\ clamped' = ClampSubs(subblocks, events[1], events[Len(events)])
    /\ pc' = "clamped"
    /\ UNCHANGED <<events, gap_minutes, min_queries, min_rate, idle_gap,
                   bin_minutes, term_cols, raw_blocks, kept, dropped,
                   subblocks, active_subblocks, block_k, chart,
                   settingVars, topVars>>

NextSub == FindSub \/ ClampSub

SpecSub == InitSub /\ [][NextSub]_vars

----------------------------------------------------------------------------
(* Specification of main: build_blocks on the day's events, then for every *)
(* kept block find_active_subblocks on the block's events with             *)
(* bin_minutes = gap, and the clamp to the block.                          *)

\* first events at 10:00:00 and 10:01:30
MainStarts == {36000, 36090}

MainDeltas(g) == {0, 30, g * SecPerMin - 1, g * SecPerMin}

MainInputs(g) ==
    {<<>>} \cup {FromDeltas(t, ds) : t \in MainStarts,
                                     ds \in SeqsUpTo(MainDeltas(g), MaxEvents - 1)}

InitMain ==
    /\ pc = "start"
    /\ gap_minutes \in 1..MaxGap
    /\ min_queries \in 1..MaxMinQueries
    /\ min_rate \in 1..MaxRate
    /\ idle_gap \in {0, MaxIdle}
    /\ events \in MainInputs(gap_minutes)
    /\ bin_minutes = gap_minutes
    /\ term_cols = 0
    /\ Idle
    /\ NoSettings

\* be = [ts for ts in events if b_start <= ts <= b_end]
BlockEvents(evs, b) == SelectSeq(evs, LAMBDA ts : b.start <= ts /\ ts <= b.end)

\* one iteration of "for (b_start, b_end, _) in blocks"
SubsForBlock ==
    /\ pc = "blocks"
    /\ block_k < Len(kept)
    /\ LET b  == kept[block_k + 1]
           be == BlockEvents(events, b)
       IN  /\ subblocks' = FindActiveSubblocks(be, min_rate, idle_gap, gap_minutes)
           /\ clamped' = ClampSubs(subblocks', b.start, b.end)
    /\ active_subblocks' = Append(active_subblocks, clamped')
    /\ block_k' = block_k + 1
    /\ UNCHANGED <<pc, events, gap_minutes, min_queries, min_rate, idle_gap,
                   bin_minutes, term_cols, raw_blocks, kept, dropped, chart,
                   settingVars, topVars>>

\* print_report(...) once every kept block has its sub-blocks
Report ==
    /\ pc = "blocks"
    /\ block_k = Len(kept)
    /\ pc' = "reported"
    /\ UNCHANGED <<events, gap_minutes, min_queries, min_rate, idle_gap,
                   bin_minutes, term_cols, raw_blocks, kept, dropped,
                   subblocks, clamped, active_subblocks, block_k, chart,
                   settingVars, topVars>>

NextMain == BuildBlocks \/ SubsForBlock \/ Report

SpecMain == InitMain /\ [][NextMain]_vars

----------------------------------------------------------------------------
(* _print_day_chart: plot width, bin width and histogram *)

\* term_cols = min(term_cols, 200); plot_w = term_cols - Y_W - 1
PlotWidthMutNoCap(cols) == cols - Y_W - 1
PlotWidth(cols) == Min(cols, TermColsCap) - Y_W - 1

\* snap = max(gap_minutes, math.ceil((1440 / plot_w) / gap_minutes) * gap_minutes)
\* The float quotient (1440 / plot_w) / gap_minutes is exact when it is an
\* integer, so its ceiling is the ceiling of 1440 / (plot_w * gap_minutes).
SnapMutFloor(plot_w, gapm) ==
    Max(gapm, (DayMinutes \div (plot_w * gapm)) * gapm)
Snap(plot_w, gapm) ==
    Max(gapm, CeilDiv(DayMinutes, plot_w * gapm) * gapm)

\* n_bins = math.ceil(1440 / snap)
NBinsMutFloor(snap) == DayMinutes \div snap
NBins(snap) == CeilDiv(DayMinutes, snap)

\* mins = (ts - midnight).total_seconds() / 60; b = min(int(mins / snap), n_bins - 1)
BucketMutSeconds(ts, snap, n_bins) == Min(ts \div snap, n_bins - 1)
Bucket(ts, snap, n_bins) == Min(ts \div (SecPerMin * snap), n_bins - 1)

\* counts = [0] * n_bins; for ts in events: counts[b] += 1
RECURSIVE Histogram(_, _, _, _)
Histogram(evs, snap, n_bins, counts) ==
    IF evs = <<>> THEN counts
    ELSE Histogram(Tail(evs), snap, n_bins,
                   [counts EXCEPT ![Bucket(Head(evs), snap, n_bins)] = @ + 1])

\* max_count = max(counts) if any(counts) else 1
MaxCountMutFloorRows(counts) ==
    IF \E c \in DOMAIN counts : counts[c] # 0
    THEN CHOOSE m \in {counts[c] : c \in DOMAIN counts} :
             \A c \in DOMAIN counts : counts[c] <= m
    ELSE CHART_H
MaxCount(counts) ==
    IF \E c \in DOMAIN counts : counts[c] # 0
    THEN CHOOSE m \in {counts[c] : c \in DOMAIN counts} :
             \A c \in DOMAIN counts : counts[c] <= m
    ELSE 1

\* round(n / d) for n >= 0, d >= 1: Python rounds an exact half to the even
\* integer.  The program rounds the float (x / max_count) * 8; the float is
\* exact when 8 * x / max_count is a half-integer and otherwise nearer to the
\* true quotient than that is to any half-integer, so it rounds the same way.
RoundMutHalfUp(n, d) == (2 * n + d) \div (2 * d)
Round(n, d) ==
    LET q == n \div d
        r == n % d
    IN  IF 2 * r < d THEN q
        ELSE IF 2 * r > d THEN q + 1
        ELSE IF q % 2 = 0 THEN q ELSE q + 1

\* threshold_count = active_rate * snap
ThresholdCountMutPerMinute(rate, snap) == rate
ThresholdCount(rate, snap) == rate * snap

\* threshold_row = round(threshold_count / max_count * CHART_H)
ThresholdRow(rate, snap, max_count) ==
    Round(ThresholdCount(rate, snap) * CHART_H, max_count)

\* "if threshold_count > max_count" chooses the "above peak" note
AbovePeakMutWeak(threshold_count, max_count) == threshold_count >= max_count
AbovePeak(threshold_count, max_count) == threshold_count > max_count

\* heights = [round(counts[c] / max_count * CHART_H) for c in range(n_bins)]
Heights(counts, max_count) ==
    [c \in DOMAIN counts |-> Round(counts[c] * CHART_H, max_count)]

\* _bins_for_block: range(max(0, c1), min(n_bins, c2 + 1))
BinsForBlockMutExclusive(b, snap, n_bins) ==
    LET c1 == b.start \div (SecPerMin * snap)
        c2 == b.end \div (SecPerMin * snap)
    IN  Max(0, c1)..(Min(n_bins, c2) - 1)
BinsForBlock(b, snap, n_bins) ==
    LET c1 == b.start \div (SecPerMin * snap)
        c2 == b.end \div (SecPerMin * snap)
    IN  Max(0, c1)..(Min(n_bins, c2 + 1) - 1)

\* in_block[c]
InBlock(blocks, snap, n_bins) ==
    [c \in 0..(n_bins - 1) |->
        \E k \in DOMAIN blocks : c \in BinsForBlock(blocks[k], snap, n_bins)]

\* in_dropped[c]: "if not in_block[c]"
InDroppedMutNoPriority(in_block, dropped_blocks, snap, n_bins) ==
    [c \in 0..(n_bins - 1) |->
        \E k \in DOMAIN dropped_blocks :
            c \in BinsForBlock(dropped_blocks[k], snap, n_bins)]
InDropped(in_block, dropped_blocks, snap, n_bins) ==
    [c \in 0..(n_bins - 1) |->
        /\ ~in_block[c]
        /\ \E k \in DOMAIN dropped_blocks :
              c \in BinsForBlock(dropped_blocks[k], snap, n_bins)]

\* cell_colors of one chart row: _C_HOT, _C_KEPT, _C_DROPPED, _C_DIM or None
CellColorMutKeptFirst(ch, c, row) ==
    IF ch.heights[c] > row /\ ch.in_block[c] THEN "kept"
    ELSE IF ch.heights[c] > row /\ row >= ch.threshold_row THEN "hot"
    ELSE IF ch.heights[c] > row /\ ch.in_dropped[c] THEN "dropped"
    ELSE IF ch.heights[c] > row THEN "dim"
    ELSE "none"
CellColor(ch, c, row) ==
    IF ch.heights[c] > row /\ row >= ch.threshold_row THEN "hot"
    ELSE IF ch.heights[c] > row /\ ch.in_block[c] THEN "kept"
    ELSE IF ch.heights[c] > row /\ ch.in_dropped[c] THEN "dropped"
    ELSE IF ch.heights[c] > row THEN "dim"
    ELSE "none"

\* col_color[c]: _C_KEPT if in_block[c] else _C_DROPPED if in_dropped[c] else None
ColColor(ch, c) ==
    IF ch.in_block[c] THEN "kept"
    ELSE IF ch.in_dropped[c] THEN "dropped"
    ELSE "none"

\* ind_chars[c] of the indicator row: dark, medium or light shade
IndChar(ch, c) ==
    IF ch.in_block[c] THEN "dark"
    ELSE IF ch.in_dropped[c] THEN "medium"
    ELSE "light"

\* h_step = 3 if n_bins >= 48 else 6
HStepMutFine(n_bins) == IF n_bins >= 48 THEN 6 ELSE 3
HStep(n_bins) == IF n_bins >= 48 THEN 3 ELSE 6

\* "for h in range(0, 25, h_step)": the hours labelled, in order
LabelHours(h_step) == [k \in 1..CeilDiv(25, h_step) |-> (k - 1) * h_step]

\* col = min(int(h * 60 / snap), n_bins - 1)
LabelCol(h, snap, n_bins) == Min((h * 60) \div snap, n_bins - 1)

\* lbl = f"{h:02d}h"
DigitChars == <<"0", "1", "2", "3", "4", "5", "6", "7", "8", "9">>
Label(h) == <<DigitChars[(h \div 10) + 1], DigitChars[(h % 10) + 1], "h">>

\* the assignments "lbl_chars[col + i] = ch" of the label loop, in order:
\* character i of the label of hour h goes to column col + i when
\* "col + i < n_bins"
LabelWritesMutNoGuard(snap, n_bins, h_step) ==
    LET hours == LabelHours(h_step)
    IN  [j \in 1..(3 * Len(hours)) |->
            LET h == hours[(j - 1) \div 3 + 1]
                i == (j - 1) % 3
            IN  [h |-> h, i |-> i, col |-> LabelCol(h, snap, n_bins) + i,
                 ch |-> Label(h)[i + 1]]]
LabelWrites(snap, n_bins, h_step) ==
    LET hours == LabelHours(h_step)
        all == [j \in 1..(3 * Len(hours)) |->
                   LET h == hours[(j - 1) \div 3 + 1]
                       i == (j - 1) % 3
                   IN  [h |-> h, i |-> i,
                        col |-> LabelCol(h, snap, n_bins) + i,
                        ch |-> Label(h)[i + 1]]]
    IN  SelectSeq(all, LAMBDA w : w.col < n_bins)

\* lbl_chars = [" "] * n_bins, then the assignments of the label loop
RECURSIVE ApplyWrites(_, _)
ApplyWrites(chars, writes) ==
    IF writes = <<>> THEN chars
    ELSE ApplyWrites([chars EXCEPT ![Head(writes).col] = Head(writes).ch],
                     Tail(writes))

LblChars(snap, n_bins, h_step) ==
    ApplyWrites([c \in 0..(n_bins - 1) |-> " "],
                LabelWrites(snap, n_bins, h_step))

\* chars of one chart row: a full block or a space
CellChar(ch, c, row) == IF ch.heights[c] > row THEN "full" ELSE "space"

\* "for row in range(CHART_H - 1, -1, -1)": the rows printed, top to bottom
ChartRows == [k \in 1..CHART_H |-> CHART_H - k]

\* what _print_day_chart computes for the day's events
DayChart(evs, cols, gapm, blocks, dropped_blocks, rate) ==
    LET plot_w == PlotWidth(cols)
    IN  IF plot_w < MinPlotWidth
        THEN [rendered |-> FALSE]
        ELSE LET snap   == Snap(plot_w, gapm)
                 n_bins == NBins(snap)
                 counts == Histogram(evs, snap, n_bins,
                                     [c \in 0..(n_bins - 1) |-> 0])
                 max_count == MaxCount(counts)
                 in_block  == InBlock(blocks, snap, n_bins)
             IN  [rendered |-> TRUE,
                  plot_w   |-> plot_w,
                  snap     |-> snap,
                  n_bins   |-> n_bins,
                  counts   |-> counts,
                  max_count |-> max_count,
                  threshold_count |-> ThresholdCount(rate, snap),
                  threshold_row |-> ThresholdRow(rate, snap, max_count),
                  above_peak |-> AbovePeak(ThresholdCount(rate, snap), max_count),
                  in_block |-> in_block,
                  in_dropped |-> InDropped(in_block, dropped_blocks, snap, n_bins),
                  heights  |-> Heights(counts, max_count),
                  rows     |-> ChartRows,
                  h_step   |-> HStep(n_bins),
                  lbl_chars |-> LblChars(snap, n_bins, HStep(n_bins))]

----------------------------------------------------------------------------
(* Specification of _print_day_chart *)

\* events at 00:04:59 and 23:59:59
ChartTimes == {299, 86399}

SortedSeqs(S, n) ==
    {q \in SeqsUpTo(S, n) : \A k \in 1..(Len(q) - 1) : q[k] <= q[k + 1]}

\* gap thresholds beyond MaxChartGap: a prime, an hour, more than a day
LargeGaps == {7, 60, 1441}

\* bursts of events in one second at 00:00:00, 12:00:00 and 23:59:59
BurstTimes == <<0, 43200, 86399>>

\* number of events of one burst
BurstSizes == {0, 1, 3, 5, 16}

Repeat(t, n) == [k \in 1..n |-> t]

BurstInputs ==
    {Repeat(BurstTimes[1], n[1]) \o Repeat(BurstTimes[2], n[2])
        \o Repeat(BurstTimes[3], n[3]) :
            n \in {m \in [1..3 -> BurstSizes] : m[1] + m[2] + m[3] <= MaxBurst}}

\* days whose blocks share or span chart buckets: five queries at 00:00:00
\* and one five minutes later; one query and five of them five minutes later;
\* a run of queries 200 s apart from 00:08:20, one 300 s after the run and
\* one at noon; two queries 200 s apart and five more 300 s later
OverlayInputs ==
    {Repeat(0, 5) \o <<300>>,
     <<0>> \o Repeat(300, 5),
     <<500, 700, 900, 1100, 1300, 1600, 43200>>,
     <<500, 700>> \o Repeat(1000, 5)}

\* display widths giving bin widths of 20, 15 and 10 minutes at the default gap
OverlayWidths == {80, 104, TermColsCap}

\* the chart is drawn by main from the events and the lists build_blocks
\* returned for them (lines 891 and 921)
InitChart ==
    /\ pc = "start"
    /\ \/ /\ term_cols \in 1..MaxTermCols
          /\ gap_minutes \in (1..MaxChartGap) \cup LargeGaps
          /\ events \in SortedSeqs(ChartTimes, MaxChartEvents)
          /\ min_queries = 1 /\ min_rate = DEFAULT_ACTIVE_RATE
       \/ /\ term_cols \in {80, TermColsCap}
          /\ gap_minutes \in {1, GAP_MINUTES}
          /\ events \in BurstInputs
          /\ min_queries \in {1, MIN_BLOCK_QUERIES}
          /\ min_rate \in (1..MaxRate) \cup {DEFAULT_ACTIVE_RATE}
       \/ /\ term_cols \in OverlayWidths
          /\ gap_minutes \in {1, GAP_MINUTES}
          /\ events \in OverlayInputs
          /\ min_queries \in {1, MIN_BLOCK_QUERIES}
          /\ min_rate = DEFAULT_ACTIVE_RATE
    /\ idle_gap = 0
    /\ bin_minutes = gap_minutes
    /\ raw_blocks = RawBlocks(events, gap_minutes)
    /\ kept = KeptOf(raw_blocks, min_queries)
    /\ dropped = DroppedOf(raw_blocks, min_queries)
    /\ subblocks = <<>> /\ clamped = <<>> /\ active_subblocks = <<>>
    /\ block_k = 0
    /\ chart = [rendered |-> FALSE]
    /\ NoSettings

PrintDayChart ==
    /\ pc = "start"
    /\ chart' = DayChart(events, term_cols, gap_minutes, kept, dropped, min_rate)
    /\ pc' = "charted"
    /\ UNCHANGED <<events, gap_minutes, min_queries, min_rate, idle_gap,
                   bin_minutes, term_cols, raw_blocks, kept, dropped,
                   subblocks, clamped, active_subblocks, block_k,
                   settingVars, topVars>>

NextChart == PrintDayChart

SpecChart == InitChart /\ [][NextChart]_vars

----------------------------------------------------------------------------
(* Specification of the three functions applied to the events of one day, *)
(* in the order of their definitions: build_blocks, find_active_subblocks *)
(* on the whole day, and _print_day_chart with the lists of build_blocks. *)

\* display widths one column under the narrowest chart, the default, and
\* the widest
DayWidths == {31, 80, TermColsCap}

\* days with two blocks 200 s apart: three queries at 10:06:40 and one
\* later; three queries from 10:07:00 to 10:08:20 and one later
DayScenarios ==
    {<<36400, 36400, 36400, 36600>>, <<36420, 36470, 36500, 36700>>}

InitDay ==
    /\ pc = "start"
    /\ gap_minutes \in 1..MaxGap
    /\ min_queries \in {1, MaxMinQueries}
    /\ min_rate \in {1, MaxRate}
    /\ idle_gap = DEFAULT_IDLE_GAP
    /\ events \in MainInputs(gap_minutes) \cup DayScenarios
    /\ bin_minutes = 1
    /\ term_cols \in DayWidths
    /\ Idle
    /\ NoSettings

\* find_active_subblocks(events, min_rate, idle_gap) with the default
\* bin_minutes = 1
FindDay ==
    /\ pc = "blocks"
    /\ subblocks' = FindActiveSubblocks(events, min_rate, idle_gap, bin_minutes)
    /\ pc' = "found"
    /\ UNCHANGED <<events, gap_minutes, min_queries, min_rate, idle_gap,
                   bin_minutes, term_cols, raw_blocks, kept, dropped,
                   clamped, active_subblocks, block_k, chart,
                   settingVars, topVars>>

\* _print_day_chart(events, target_date, gap, blocks, dropped, active_rate)
ChartDay ==
    /\ pc = "found"
    /\ chart' = DayChart(events, term_cols, gap_minutes, kept, dropped, min_rate)
    /\ pc' = "charted"
    /\ UNCHANGED <<events, gap_minutes, min_queries, min_rate, idle_gap,
                   bin_minutes, term_cols, raw_blocks, kept, dropped,
                   subblocks, clamped, active_subblocks, block_k,
                   settingVars, topVars>>

NextDay == BuildBlocks \/ FindDay \/ ChartDay

SpecDay == InitDay /\ [][NextDay]_vars

----------------------------------------------------------------------------
(* main: resolution of the settings, and collect_events *)

\* A hostname or a domain is the list of its labels, lower-case and without
\* a trailing dot: what .lower().rstrip(".") leaves.
IsSuffix(s, h) ==
    /\ Len(s) <= Len(h)
    /\ \A k \in 1..Len(s) : h[Len(h) - Len(s) + k] = s[k]

\* hostname == domain or hostname.endswith("." + domain); for the domain ""
\* the second test asks for a trailing dot, which the hostname never has
matches_domain(hostname, domain) ==
    IF domain = <<>> THEN hostname = <<>>
    ELSE \/ hostname = domain
         \/ Len(hostname) > Len(domain) /\ IsSuffix(domain, hostname)

\* BACKGROUND_PATTERNS r"time\.windows\.com$" and r"captive\.apple\.com$"
BackgroundSuffixes == {<<"time", "windows", "com">>, <<"captive", "apple", "com">>}

\* is_background for hostnames none of whose labels merely contains a
\* pattern's label: the two suffix patterns, r"ocsp\." (a label ocsp
\* followed by a dot) and r"^captive\."
is_background(hostname) ==
    \/ \E s \in BackgroundSuffixes : IsSuffix(s, hostname)
    \/ \E k \in 1..(Len(hostname) - 1) : hostname[k] = "ocsp"
    \/ Len(hostname) > 1 /\ hostname[1] = "captive"

\* is_blocked: bool(result) and result.get("IsFiltered", False)
is_blocked(entry) == entry.IsFiltered

\* seconds of one day
DaySeconds == DayMinutes * SecPerMin

\* local_date(ts) != target_date, for T in seconds since the target day began
OnTargetDate(T) == T \div DaySeconds = 0

\* min_queries: CLI > config; domain mode defaults to 1 if not set anywhere
ResolveMinQueries(a, c) ==
    IF a.min_queries # None THEN a.min_queries
    ELSE IF "min_queries" \in DOMAIN c THEN c.min_queries
    ELSE IF a.domain.given /\ a.domain.name # <<>> THEN 1
    ELSE MIN_BLOCK_QUERIES

\* --no-bg-filter beats config; config beats True
ResolveBgFilter(a, c) ==
    IF a.no_bg_filter THEN FALSE
    ELSE IF "bg_filter" \in DOMAIN c THEN c.bg_filter
    ELSE TRUE

\* --only-allowed / --only-blocked > config query_filter > "all"
ResolveQueryFilter(a, c) ==
    IF a.only_allowed THEN "allowed"
    ELSE IF a.only_blocked THEN "blocked"
    ELSE IF "query_filter" \in DOMAIN c
              /\ c.query_filter \in {"all", "allowed", "blocked"}
         THEN c.query_filter
    ELSE "all"

\* args.x if args.x is not None else cfg.get(key, default)
ResolveInt(cli, c, key, default) ==
    IF cli # None THEN cli
    ELSE IF key \in DOMAIN c THEN c[key]
    ELSE default

\* one line of the log in collect_events; acc is (events, bg_filtered,
\* total_seen) so far
CollectStep(acc, entry, client_ip, domain, bgf, qf) ==
    IF entry.IP # client_ip THEN acc
    ELSE IF entry.T = None THEN acc
    ELSE IF ~OnTargetDate(entry.T) THEN acc
    ELSE IF qf = "allowed" /\ is_blocked(entry) THEN acc
    ELSE IF qf = "blocked" /\ ~is_blocked(entry) THEN acc
    ELSE IF domain.given
         THEN IF matches_domain(entry.QH, domain.name)
              THEN [acc EXCEPT !.events = Append(@, entry.T),
                               !.total_seen = @ + 1]
              ELSE [acc EXCEPT !.total_seen = @ + 1]
    ELSE IF bgf /\ is_background(entry.QH)
         THEN [acc EXCEPT !.bg_filtered = @ + 1]
    ELSE [acc EXCEPT !.events = Append(@, entry.T)]

RECURSIVE CollectFrom(_, _, _, _, _, _)
CollectFrom(acc, lines, client_ip, domain, bgf, qf) ==
    IF lines = <<>> THEN acc
    ELSE CollectFrom(CollectStep(acc, Head(lines), client_ip, domain, bgf, qf),
                     Tail(lines), client_ip, domain, bgf, qf)

\* collect_events: the loop over the log, then events.sort()
collect_events(lines, client_ip, bgf, domain, qf) ==
    LET acc == CollectFrom([events |-> <<>>, bg_filtered |-> 0, total_seen |-> 0],
                           lines, client_ip, domain, bgf, qf)
    IN  [acc EXCEPT !.events = SortSeq(@, LAMBDA x, y : x < y)]

----------------------------------------------------------------------------
(* Specification of main up to collect_events *)

\* the client of the report
ClientIp == "10.0.0.2"

\* log entries of the client on the target day: a page of the domain, a
\* certificate check under the domain, a blocked captive-portal probe, a
\* look-alike domain, a query without hostname; and entries of another
\* client, of the next day and without timestamp
LogEntries ==
    {[IP |-> ClientIp, T |-> 36000, IsFiltered |-> FALSE, QH |-> <<"www", "roblox", "com">>],
     [IP |-> ClientIp, T |-> 36060, IsFiltered |-> FALSE, QH |-> <<"ocsp", "roblox", "com">>],
     [IP |-> ClientIp, T |-> 36120, IsFiltered |-> TRUE, QH |-> <<"captive", "apple", "com">>],
     [IP |-> ClientIp, T |-> 35000, IsFiltered |-> FALSE, QH |-> <<"notroblox", "com">>],
     [IP |-> ClientIp, T |-> 36180, IsFiltered |-> FALSE, QH |-> <<>>],
     [IP |-> "10.0.0.3", T |-> 36000, IsFiltered |-> FALSE, QH |-> <<"roblox", "com">>],
     [IP |-> ClientIp, T |-> DaySeconds + 60, IsFiltered |-> FALSE, QH |-> <<"roblox", "com">>],
     [IP |-> ClientIp, T |-> None, IsFiltered |-> FALSE, QH |-> <<"roblox", "com">>]}

\* no --domain, --domain "" and --domain roblox.com
DomainArgs ==
    {[given |-> FALSE, name |-> <<>>],
     [given |-> TRUE, name |-> <<>>],
     [given |-> TRUE, name |-> <<"roblox", "com">>]}

\* command lines: --min-queries absent or 3, --no-bg-filter, --domain, and
\* at most one of --only-allowed and --only-blocked
ArgInputs ==
    {[NoArgs EXCEPT !.min_queries = mq, !.no_bg_filter = nbf, !.domain = d,
                    !.only_allowed = (only = "allowed"),
                    !.only_blocked = (only = "blocked")] :
        mq \in {None, 3}, nbf \in BOOLEAN, d \in DomainArgs,
        only \in {"none", "allowed", "blocked"}}

\* config files: min_queries absent or 2, bg_filter absent, true or false
CfgInputs ==
    {m @@ b : m \in {EmptyDict, [min_queries |-> 2]},
              b \in {EmptyDict, [bg_filter |-> TRUE], [bg_filter |-> FALSE]}}

InitConfig ==
    /\ pc = "start"
    /\ args \in ArgInputs
    /\ cfg \in CfgInputs
    /\ log \in SeqsUpTo(LogEntries, MaxLogLines)
    /\ events = <<>>
    /\ gap_minutes = None /\ min_queries = None /\ min_rate = None
    /\ idle_gap = None /\ bin_minutes = None
    /\ bg_filter = TRUE /\ query_filter = "all"
    /\ bg_filtered = 0 /\ total_seen = 0
    /\ NoTop
    /\ term_cols = 0
    /\ Idle

\* main, "Resolve settings: CLI > config > hard-coded default"
ResolveSettings ==
    /\ pc = "start"
    /\ gap_minutes' = ResolveInt(args.gap, cfg, "gap", GAP_MINUTES)
    /\ min_rate' = ResolveInt(args.active_rate, cfg, "active_rate", DEFAULT_ACTIVE_RATE)
    /\ idle_gap' = ResolveInt(args.idle_gap, cfg, "idle_gap", DEFAULT_IDLE_GAP)
    /\ bg_filter' = ResolveBgFilter(args, cfg)
    /\ min_queries' = ResolveMinQueries(args, cfg)
    /\ query_filter' = ResolveQueryFilter(args, cfg)
    /\ bin_minutes' = gap_minutes'
    /\ pc' = "resolved"
    /\ UNCHANGED <<events, term_cols, raw_blocks, kept, dropped, subblocks,
                   clamped, active_subblocks, block_k, chart, args, cfg, log,
                   bg_filtered, total_seen, topVars>>

\* events, bg_filtered, total_seen = collect_events(log_file, args.ip,
\*     target_date, bg_filter, args.domain, query_filter)
CollectEvents ==
    /\ pc = "resolved"
    /\ LET r == collect_events(log, ClientIp, bg_filter, args.domain, query_filter)
       IN  /\ events' = r.events
           /\ bg_filtered' = r.bg_filtered
           /\ total_seen' = r.total_seen
    /\ pc' = "collected"
    /\ UNCHANGED <<gap_minutes, min_queries, min_rate, idle_gap, bin_minutes,
                   term_cols, raw_blocks, kept, dropped, subblocks, clamped,
                   active_subblocks, block_k, chart, args, cfg, log,
                   bg_filter, query_filter, topVars>>

NextConfig == ResolveSettings \/ CollectEvents

SpecConfig == InitConfig /\ [][NextConfig]_vars

----------------------------------------------------------------------------
(* adguard_top_domains.py: collect_domain_counts and print_report *)

\* A raw hostname of the log is the list of the labels between its dots, in
\* the case the log has them; a trailing dot leaves an empty last label.

\* str.lower() on the labels of the logs of this model
Lower(l) ==
    CASE l = "WWW" -> "www"
      [] l = "Roblox" -> "roblox"
      [] l = "COM" -> "com"
      [] OTHER -> l

\* str.rstrip("."): every trailing dot goes, with it every empty last label
RECURSIVE RStripDots(_)
RStripDots(h) ==
    IF h # <<>> /\ h[Len(h)] = ""
    THEN RStripDots(SubSeq(h, 1, Len(h) - 1))
    ELSE h

\* hostname = entry.get("QH", "").lower().rstrip(".")
Hostname(qh) == RStripDots([k \in DOMAIN qh |-> Lower(qh[k])])

\* root_domain: the last two labels of hostname.lower().rstrip(".")
root_domain(hostname) ==
    LET parts == Hostname(hostname)
    IN  IF Len(parts) <= 2 THEN parts
        ELSE SubSeq(parts, Len(parts) - 1, Len(parts))

\* Counter: counter[key] += 1
Increment(counter, key) ==
    IF key \in DOMAIN counter
    THEN [counter EXCEPT ![key] = @ + 1]
    ELSE counter @@ (key :> 1)

\* sum(counter.values())
RECURSIVE SumCounter(_)
SumCounter(counter) ==
    IF DOMAIN counter = {} THEN 0
    ELSE LET key == CHOOSE k \in DOMAIN counter : TRUE
         IN  counter[key]
                + SumCounter([k \in DOMAIN counter \ {key} |-> counter[k]])

\* one line of the log in collect_domain_counts; is_blocked and
\* is_background are the same functions as in adguard_activity.py
DomainStepMutCountBackground(acc, entry, client_ip, bgf, group, qf) ==
    IF entry.IP # client_ip THEN acc
    ELSE IF entry.T = None THEN acc
    ELSE IF ~OnTargetDate(entry.T) THEN acc
    ELSE LET seen == [acc EXCEPT !.total_raw = @ + 1]
             hostname == Hostname(entry.QH)
             counted == [seen EXCEPT !.hostname_counts = Increment(@, hostname)]
         IN  IF qf = "allowed" /\ is_blocked(entry) THEN seen
             ELSE IF qf = "blocked" /\ ~is_blocked(entry) THEN seen
             ELSE IF bgf /\ is_background(hostname)
                  THEN [counted EXCEPT !.bg_filtered = @ + 1]
             ELSE IF group
                  THEN [counted EXCEPT
                           !.root_counts = Increment(@, root_domain(hostname))]
             ELSE counted
DomainStep(acc, entry, client_ip, bgf, group, qf) ==
    IF entry.IP # client_ip THEN acc
    ELSE IF entry.T = None THEN acc
    ELSE IF ~OnTargetDate(entry.T) THEN acc
    ELSE LET seen == [acc EXCEPT !.total_raw = @ + 1]
             hostname == Hostname(entry.QH)
             counted == [seen EXCEPT !.hostname_counts = Increment(@, hostname)]
         IN  IF qf = "allowed" /\ is_blocked(entry) THEN seen
             ELSE IF qf = "blocked" /\ ~is_blocked(entry) THEN seen
             ELSE IF bgf /\ is_background(hostname)
                  THEN [seen EXCEPT !.bg_filtered = @ + 1]
             ELSE IF group
                  THEN [counted EXCEPT
                           !.root_counts = Increment(@, root_domain(hostname))]
             ELSE counted

RECURSIVE DomainsFrom(_, _, _, _, _, _)
DomainsFrom(acc, lines, client_ip, bgf, group, qf) ==
    IF lines = <<>> THEN acc
    ELSE DomainsFrom(DomainStep(acc, Head(lines), client_ip, bgf, group, qf),
                     Tail(lines), client_ip, bgf, group, qf)

\* collect_domain_counts: (hostname_counts, root_counts, total_raw, bg_filtered)
collect_domain_counts(lines, client_ip, bgf, group, qf) ==
    DomainsFrom([hostname_counts |-> EmptyDict, root_counts |-> EmptyDict,
                 total_raw |-> 0, bg_filtered |-> 0],
                lines, client_ip, bgf, group, qf)

----------------------------------------------------------------------------
(* Specification of adguard_top_domains.py from collect_domain_counts on *)

\* log entries of the client on the target day: a page, the same page in
\* capitals with a trailing dot, another host of the same domain, a blocked
\* advertisement, a blocked captive-portal probe, an allowed time
\* synchronisation; and entries of another client, of the next day and
\* without timestamp
TopLogEntries ==
    {[IP |-> ClientIp, T |-> 36000, IsFiltered |-> FALSE, QH |-> <<"www", "roblox", "com">>],
     [IP |-> ClientIp, T |-> 36010, IsFiltered |-> FALSE, QH |-> <<"WWW", "Roblox", "COM", "">>],
     [IP |-> ClientIp, T |-> 36020, IsFiltered |-> FALSE, QH |-> <<"cdn", "roblox", "com">>],
     [IP |-> ClientIp, T |-> 36030, IsFiltered |-> TRUE, QH |-> <<"ads", "example", "com">>],
     [IP |-> ClientIp, T |-> 36040, IsFiltered |-> TRUE, QH |-> <<"captive", "apple", "com">>],
     [IP |-> ClientIp, T |-> 36050, IsFiltered |-> FALSE, QH |-> <<"time", "windows", "com">>],
     [IP |-> "10.0.0.3", T |-> 36000, IsFiltered |-> FALSE, QH |-> <<"roblox", "com">>],
     [IP |-> ClientIp, T |-> DaySeconds + 60, IsFiltered |-> FALSE, QH |-> <<"roblox", "com">>],
     [IP |-> ClientIp, T |-> None, IsFiltered |-> FALSE, QH |-> <<"roblox", "com">>]}

InitTop ==
    /\ pc = "start"
    /\ log \in SeqsUpTo(TopLogEntries, MaxTopLines)
    /\ bg_filter \in BOOLEAN
    /\ group_subdomains \in BOOLEAN
    /\ query_filter \in {"all", "allowed", "blocked"}
    /\ args = NoArgs /\ cfg = EmptyDict
    /\ bg_filtered = 0 /\ total_seen = 0
    /\ hostname_counts = EmptyDict /\ root_counts = EmptyDict
    /\ total_raw = 0 /\ total_filtered = 0
    /\ events = <<>>
    /\ gap_minutes = None /\ min_queries = None /\ min_rate = None
    /\ idle_gap = None /\ bin_minutes = None
    /\ term_cols = 0
    /\ Idle

\* hostname_counts, root_counts, total_raw, bg_filtered =
\*     collect_domain_counts(log_file, args.ip, target_date, bg_filter,
\*                           group_subdomains, query_filter)
CollectDomainCounts ==
    /\ pc = "start"
    /\ LET r == collect_domain_counts(log, ClientIp, bg_filter,
                                      group_subdomains, query_filter)
       IN  /\ hostname_counts' = r.hostname_counts
           /\ root_counts' = r.root_counts
           /\ total_raw' = r.total_raw
           /\ bg_filtered' = r.bg_filtered
    /\ pc' = "counted"
    /\ UNCHANGED <<events, gap_minutes, min_queries, min_rate, idle_gap,
                   bin_minutes, term_cols, raw_blocks, kept, dropped,
                   subblocks, clamped, active_subblocks, block_k, chart,
                   args, cfg, log, bg_filter, query_filter, total_seen,
                   group_subdomains, total_filtered>>

\* print_report: total_filtered = sum(hostname_counts.values())
PrintReport ==
    /\ pc = "counted"
    /\ total_filtered' = SumCounter(hostname_counts)
    /\ pc' = "reported"
    /\ UNCHANGED <<events, gap_minutes, min_queries, min_rate, idle_gap,
                   bin_minutes, term_cols, raw_blocks, kept, dropped,
                   subblocks, clamped, active_subblocks, block_k, chart,
                   settingVars, group_subdomains, hostname_counts,
                   root_counts, total_raw>>

NextTop == CollectDomainCounts \/ PrintReport

SpecTop == InitTop /\ [][NextTop]_vars

----------------------------------------------------------------------------
(* Properties of build_blocks *)

Range(s) == {s[k] : k \in DOMAIN s}

StartsIncrease(s) == \A k \in 1..(Len(s) - 1) : s[k].start < s[k + 1].start

\* kept and dropped together, ordered by start
RECURSIVE MergeByStart(_, _)
MergeByStart(a, b) ==
    IF a = <<>> THEN b
    ELSE IF b = <<>> THEN a
    ELSE IF Head(a).start <= Head(b).start
         THEN <<Head(a)>> \o MergeByStart(Tail(a), b)
         ELSE <<Head(b)>> \o MergeByStart(a, Tail(b))

\* number of events in the first k blocks of M
RECURSIVE CountUpTo(_, _)
CountUpTo(M, k) == IF k = 0 THEN 0 ELSE M[k].count + CountUpTo(M, k - 1)

\* the blocks of M that hold the event at index i, when block k is the run
\* of events CountUpTo(M, k-1)+1 .. CountUpTo(M, k)
BlocksOf(M, i) ==
    {k \in DOMAIN M : CountUpTo(M, k - 1) < i /\ i <= CountUpTo(M, k)}

\* C1: for a sorted non-empty event list and gap >= 1, the blocks that
\* build_blocks returns (kept and dropped together, ordered by start) are
\* consecutive contiguous runs of the input: block k starts right after
\* block k-1 ends, its start and end are the first and last event of its run,
\* its count is the length of its run, every event is in exactly one block
\* and the counts sum to the number of events.
C1_Partition ==
    (pc = "blocks" /\ events # <<>>) =>
        LET M == MergeByStart(kept, dropped)
        IN  /\ CountUpTo(M, Len(M)) = Len(events)
            /\ \A k \in DOMAIN M :
                  /\ M[k].count >= 1
                  /\ CountUpTo(M, k) <= Len(events)
                  /\ M[k].start = events[CountUpTo(M, k - 1) + 1]
                  /\ M[k].end = events[CountUpTo(M, k)]
            /\ \A i \in DOMAIN events : Cardinality(BlocksOf(M, i)) = 1

C1_Witness ==
    /\ pc = "blocks"
    /\ Len(events) >= 3
    /\ kept # <<>> /\ dropped # <<>>
    /\ \E k \in DOMAIN kept : kept[k].count >= 2

\* C2: consecutive blocks are at least the gap apart, two adjacent events of
\* one block are strictly less than the gap apart, and two adjacent events
\* exactly the gap apart are in two different blocks.
C2_GapInvariant ==
    (pc = "blocks" /\ events # <<>>) =>
        LET M == MergeByStart(kept, dropped)
            gap == gap_minutes * SecPerMin
        IN  /\ \A k \in 1..(Len(M) - 1) : M[k + 1].start - M[k].end >= gap
            /\ \A i \in 1..(Len(events) - 1) :
                  /\ BlocksOf(M, i) = BlocksOf(M, i + 1)
                        => events[i + 1] - events[i] < gap
                  /\ events[i + 1] - events[i] = gap
                        => BlocksOf(M, i) # BlocksOf(M, i + 1)

C2_Witness ==
    /\ pc = "blocks"
    /\ Len(raw_blocks) >= 2
    /\ \E i \in 1..(Len(events) - 1) :
          events[i + 1] - events[i] = gap_minutes * SecPerMin
    /\ \E i \in 1..(Len(events) - 1) :
          events[i + 1] - events[i] = gap_minutes * SecPerMin - 1

\* C3: kept holds exactly the raw blocks with count >= min_queries, dropped
\* exactly those with count < min_queries, each in time order, the two lists
\* disjoint, together the raw block list, no block altered; the events
\* 10:00:00, 10:00:30, 10:00:45, 10:10:00 with gap 5 and minimum 2 give
\* kept = [10:00:00-10:00:45 x3] and dropped = [10:10:00-10:10:00 x1].
C3_Classification ==
    pc = "blocks" =>
        /\ \A k \in DOMAIN kept : kept[k].count >= min_queries
        /\ \A k \in DOMAIN dropped : dropped[k].count < min_queries
        /\ StartsIncrease(kept) /\ StartsIncrease(dropped)
        /\ Range(kept) \cap Range(dropped) = {}
        /\ Range(kept) \cup Range(dropped) = Range(raw_blocks)
        /\ Len(kept) + Len(dropped) = Len(raw_blocks)
        /\ (events = ScenarioA /\ gap_minutes = 5 /\ min_queries = 2) =>
              /\ kept = <<[start |-> 36000, end |-> 36045, count |-> 3]>>
              /\ dropped = <<[start |-> 36600, end |-> 36600, count |-> 1]>>

C3_Witness ==
    /\ pc = "blocks"
    /\ events = ScenarioA /\ gap_minutes = 5 /\ min_queries = 2
    /\ Len(kept) = 1 /\ Len(dropped) = 1

----------------------------------------------------------------------------
(* Properties of find_active_subblocks and of the clamp *)

\* width of a bin in seconds
BinSeconds == bin_minutes * SecPerMin

\* the bin grid of the call: bin i is [GridOrigin + i * BinSeconds, + BinSeconds)
GridOrigin == OriginOf(events[1], bin_minutes)

EventsInBin(i) ==
    Cardinality({k \in DOMAIN events :
                    /\ GridOrigin + i * BinSeconds <= events[k]
                    /\ events[k] < GridOrigin + (i + 1) * BinSeconds})

LastBin == (events[Len(events)] - GridOrigin) \div BinSeconds

HotBins == {i \in 0..LastBin : EventsInBin(i) >= min_rate * bin_minutes}

\* sub-block k of the returned list covers bin i
Covers(k, i) ==
    /\ subblocks[k].start <= GridOrigin + i * BinSeconds
    /\ GridOrigin + (i + 1) * BinSeconds <= subblocks[k].end

SameSub(i, j) == \E k \in DOMAIN subblocks : Covers(k, i) /\ Covers(k, j)

\* every run of consecutive cold bins strictly between bins i and j has at
\* most n bins
ColdRunsAtMost(i, j, n) ==
    \A a \in (i + 1)..(j - 1) : \A b \in a..(j - 1) :
        (\A c \in a..b : c \notin HotBins) => b - a + 1 <= n

\* the cold-run rule with a budget of n cold bins: every sub-block starts
\* and ends with a hot bin, every hot bin is in one sub-block, and two hot
\* bins share a sub-block exactly when no cold run between them is longer
\* than n
ColdRunRule(n) ==
    /\ \A k \in DOMAIN subblocks :
          \E a \in HotBins : \E l \in HotBins :
              /\ subblocks[k].start = GridOrigin + a * BinSeconds
              /\ subblocks[k].end = GridOrigin + (l + 1) * BinSeconds
    /\ \A i \in HotBins : Cardinality({k \in DOMAIN subblocks : Covers(k, i)}) = 1
    /\ \A i \in HotBins : \A j \in HotBins :
          i < j => (SameSub(i, j) <=> ColdRunsAtMost(i, j, n))

\* C5: for every rate threshold, idle gap >= 0 and bin width >= 1 two hot
\* bins are in the same sub-block exactly when every run of cold bins between
\* them has at most ceil(idle_gap / bin_minutes) bins; the bin counts
\* [6,6,6,0,0,6,6] with rate 5, idle gap 2 and one-minute bins give the one
\* sub-block of bins 0-6.
C5_ColdRunRule ==
    (pc = "found" /\ events # <<>>) =>
        /\ ColdRunRule(CeilDiv(idle_gap, bin_minutes))
        /\ events = ScenarioB =>
              /\ Len(subblocks) = 1
              /\ subblocks[1].start = 36000
              /\ subblocks[1].end = 36000 + 7 * SecPerMin

\* the rule as the code has it: the budget is never below one bin
C5_ColdRunRuleFloored ==
    (pc = "found" /\ events # <<>>) =>
        /\ ColdRunRule(Max(1, CeilDiv(idle_gap, bin_minutes)))
        /\ events = ScenarioB =>
              /\ Len(subblocks) = 1
              /\ subblocks[1].start = 36000
              /\ subblocks[1].end = 36000 + 7 * SecPerMin

\* the rule for idle_gap >= 1
C5_ColdRunRulePositiveIdle ==
    (pc = "found" /\ events # <<>> /\ idle_gap >= 1) =>
        ColdRunRule(CeilDiv(idle_gap, bin_minutes))

C5_ScenarioReached ==
    pc = "found" /\ events = ScenarioB /\ Len(subblocks) = 1

\* C6: when no bin has count >= min_rate * bin_minutes the returned list is
\* empty.
C6_NoHotBinsEmpty ==
    (pc = "found" /\ events # <<>> /\ HotBins = {}) => subblocks = <<>>

C6_Witness ==
    /\ pc = "found" /\ Len(events) >= 3 /\ HotBins = {} /\ subblocks = <<>>
    /\ \E i \in 0..LastBin : EventsInBin(i) >= min_rate /\ EventsInBin(i) >= 2

Ordered(subs) ==
    \A k \in 1..(Len(subs) - 1) :
        /\ subs[k].start < subs[k + 1].start
        /\ subs[k].end <= subs[k + 1].start

\* C7: the sub-blocks of one block are in strictly increasing time order and
\* do not overlap, as returned by find_active_subblocks and after the clamp
\* to the parent block.
C7_Ordering ==
    /\ pc \in {"found", "clamped"} => Ordered(subblocks)
    /\ pc = "clamped" => Ordered(clamped)

C7_Witness ==
    /\ pc = "clamped" /\ Len(subblocks) >= 2 /\ Len(clamped) >= 2
    /\ clamped[1].start > subblocks[1].start

\* C4: every sub-block reported for a kept block after the clamp in main
\* lies inside the block and is not empty:
\* block.start <= sub.start < sub.end <= block.end.
C4_Containment ==
    \A k \in DOMAIN active_subblocks :
        \A n \in DOMAIN active_subblocks[k] :
            LET sub == active_subblocks[k][n]
            IN  /\ kept[k].start <= sub.start
                /\ sub.start < sub.end
                /\ sub.end <= kept[k].end

\* a reported sub-block whose two ends were both moved by the clamp, and a
\* block whose only sub-block the clamp discarded
C4_Witness ==
    /\ pc = "reported"
    /\ \E k \in DOMAIN active_subblocks :
          /\ active_subblocks[k] # <<>>
          /\ active_subblocks[k][1].start = kept[k].start
          /\ active_subblocks[k][1].end = kept[k].end
          /\ OriginOf(kept[k].start, gap_minutes) < kept[k].start
    /\ \E k \in DOMAIN active_subblocks :
          /\ active_subblocks[k] = <<>>
          /\ kept[k].count >= min_rate * gap_minutes

----------------------------------------------------------------------------
(* Properties of _print_day_chart *)

\* C8: for plot width >= 24 and gap >= 1 the bin width is the smallest
\* positive multiple w of the gap with ceil(1440 / w) <= plot width, and the
\* histogram has exactly ceil(1440 / w) buckets, at most the plot width.
C8_BinWidth ==
    (pc = "charted" /\ chart.rendered) =>
        /\ chart.plot_w >= 24
        /\ chart.snap >= 1
        /\ chart.snap % gap_minutes = 0
        /\ \A m \in 1..(chart.snap \div gap_minutes) :
              (m * gap_minutes < chart.snap) <=>
                  (1440 + m * gap_minutes - 1) \div (m * gap_minutes) > chart.plot_w
        /\ chart.n_bins = (1440 + chart.snap - 1) \div chart.snap
        /\ chart.n_bins <= chart.plot_w
        /\ DOMAIN chart.counts = 0..(chart.n_bins - 1)

C8_Witness ==
    /\ pc = "charted" /\ chart.rendered
    /\ chart.snap >= 3 * gap_minutes
    /\ 1440 % chart.snap # 0

\* C9 as stated: plot width 60 and gap 5 give bin width 30 and 48 buckets.
C9_ScenarioC_Stated ==
    (pc = "charted" /\ chart.rendered /\ chart.plot_w = 60 /\ gap_minutes = 5) =>
        chart.snap = 30 /\ chart.n_bins = 48

\* C9: plot width 60 and gap 5 give bin width 25 and 58 buckets.
C9_ScenarioC ==
    (pc = "charted" /\ chart.rendered /\ chart.plot_w = 60 /\ gap_minutes = 5) =>
        chart.snap = 25 /\ chart.n_bins = 58

C9_Witness ==
    /\ pc = "charted" /\ chart.rendered /\ chart.plot_w = 60 /\ gap_minutes = 5
    /\ term_cols = 68

\* C10: every event of the day is counted in exactly one bucket, the one at
\* floor(minutes since midnight / bin width) clamped to the last bucket, and
\* the bucket counts sum to the number of events.
C10_Conservation ==
    (pc = "charted" /\ chart.rendered) =>
        /\ \A c \in DOMAIN chart.counts :
              chart.counts[c] =
                  Cardinality({k \in DOMAIN events :
                      LET f == (events[k] \div 60) \div chart.snap
                      IN  c = IF f > chart.n_bins - 1 THEN chart.n_bins - 1 ELSE f})
        /\ SumRange(chart.counts, 0, chart.n_bins - 1) = Len(events)

C10_Witness ==
    /\ pc = "charted" /\ chart.rendered /\ Len(events) >= 2
    /\ \E c \in DOMAIN chart.counts : chart.counts[c] >= 2
    /\ chart.counts[chart.n_bins - 1] >= 1
    /\ chart.n_bins >= 24

\* C12: the display width is capped at 200 columns and the plot width is the
\* capped width minus 8; the chart is omitted, with nothing computed or
\* printed, exactly when that plot width is below 24, and is rendered with
\* all its rows for every plot width of 24 or more.
C12_NarrowDisplay ==
    (pc = "charted") =>
        LET capped == IF term_cols > 200 THEN 200 ELSE term_cols
        IN  /\ chart.rendered <=> (capped - 8 >= 24)
            /\ chart.rendered =>
                  /\ chart.plot_w = capped - 8
                  /\ Len(chart.rows) = 8
            /\ ~chart.rendered => chart = [rendered |-> FALSE]

\* the widest display for which the chart is omitted
C12_Witness ==
    /\ pc = "charted"
    /\ term_cols = 31
    /\ ~chart.rendered
    /\ events # <<>>

\* the largest bucket count of the chart, or 1 when every bucket is empty
PeakOf(counts) ==
    IF \A c \in DOMAIN counts : counts[c] = 0 THEN 1
    ELSE CHOOSE m \in 1..Len(events) :
             /\ \E c \in DOMAIN counts : counts[c] = m
             /\ \A c \in DOMAIN counts : counts[c] <= m

\* h is 8 * count / peak rounded to the nearest integer, an exact half going
\* to the even neighbour
IsNearestEven(h, count, peak) ==
    LET twice == 2 * (8 * count - h * peak)
        dist  == IF twice < 0 THEN 0 - twice ELSE twice
    IN  \/ dist < peak
        \/ dist = peak /\ h % 2 = 0

\* C18: with peak the largest bucket count (1 when all buckets are empty),
\* every bar height is 8 * count / peak rounded to the nearest integer with
\* halves to even; so heights lie in 0..8, a peak bucket of a non-empty day
\* has height 8, a larger count never has a lower bar, and the cell of
\* bucket c at row r is filled exactly when height(c) > r.
\* Monotonicity is stated against the non-empty buckets d; against an empty
\* bucket it is the statement that an empty bucket has height 0.
C18_BarQuantization ==
    (pc = "charted" /\ chart.rendered) =>
        /\ chart.max_count = PeakOf(chart.counts)
        /\ DOMAIN chart.heights = DOMAIN chart.counts
        /\ \A c \in DOMAIN chart.counts :
              /\ chart.heights[c] \in 0..8
              /\ IsNearestEven(chart.heights[c], chart.counts[c], chart.max_count)
              /\ (events # <<>> /\ chart.counts[c] = chart.max_count)
                    => chart.heights[c] = 8
              /\ chart.counts[c] = 0 => chart.heights[c] = 0
              /\ \A k \in DOMAIN chart.rows :
                    (CellChar(chart, c, chart.rows[k]) = "full")
                        <=> (chart.heights[c] > chart.rows[k])
        /\ \A d \in DOMAIN chart.counts :
              chart.counts[d] > 0 =>
                  \A c \in DOMAIN chart.counts :
                      chart.counts[c] <= chart.counts[d]
                          => chart.heights[c] <= chart.heights[d]

\* a day whose buckets hold 1, 3 and 16 events: 8 * 1 / 16 = 0.5 goes down to
\* 0 and 8 * 3 / 16 = 1.5 goes up to 2
C18_Witness ==
    /\ pc = "charted" /\ chart.rendered
    /\ \E c \in DOMAIN chart.counts :
          chart.counts[c] = 1 /\ chart.heights[c] = 0
    /\ \E c \in DOMAIN chart.counts :
          chart.counts[c] = 3 /\ chart.heights[c] = 2
    /\ \E c \in DOMAIN chart.counts :
          chart.counts[c] = 16 /\ chart.heights[c] = 8

\* C19: thresholdRow is activeRate * binWidth / peak * 8 rounded (halves to
\* even); the cell of bucket c at row r is coloured above-threshold exactly
\* when it is filled and r >= thresholdRow, whether the bucket lies in a kept
\* block, a dropped block or neither; the kept and dropped colours appear
\* only on filled cells below thresholdRow.
C19_ThresholdHighlight ==
    (pc = "charted" /\ chart.rendered) =>
        /\ chart.threshold_count = min_rate * chart.snap
        /\ IsNearestEven(chart.threshold_row, min_rate * chart.snap,
                         PeakOf(chart.counts))
        /\ \A c \in DOMAIN chart.counts :
              \A k \in DOMAIN chart.rows :
                  LET r      == chart.rows[k]
                      filled == chart.heights[c] > r
                      colour == CellColor(chart, c, r)
                  IN  /\ (colour = "hot") <=> (filled /\ r >= chart.threshold_row)
                      /\ (colour \in {"kept", "dropped"})
                            => (filled /\ r < chart.threshold_row)

\* a bar in a kept block that is above-threshold at the top row and
\* kept-coloured at the bottom row, beside a bar in a dropped block
C19_Witness ==
    /\ pc = "charted" /\ chart.rendered
    /\ \E c \in DOMAIN chart.counts :
          /\ chart.in_block[c]
          /\ CellColor(chart, c, 7) = "hot"
          /\ CellColor(chart, c, 0) = "kept"
    /\ \E d \in DOMAIN chart.counts :
          /\ chart.in_dropped[d]
          /\ CellColor(chart, d, 0) = "dropped"

\* C20: the "above peak" note is printed exactly when activeRate * binWidth
\* exceeds the peak count; the chart then still has all 8 rows, thresholdRow
\* is at least 8, and no cell of any bucket is coloured above-threshold.
C20_ThresholdAbovePeak ==
    (pc = "charted" /\ chart.rendered) =>
        /\ chart.above_peak <=> (min_rate * chart.snap > PeakOf(chart.counts))
        /\ chart.above_peak =>
              /\ Len(chart.rows) = 8
              /\ {chart.rows[k] : k \in DOMAIN chart.rows} = 0..7
              /\ chart.threshold_row >= 8
              /\ \A c \in DOMAIN chart.counts :
                    \A k \in DOMAIN chart.rows :
                        CellColor(chart, c, chart.rows[k]) # "hot"

\* a day with a full-height bar whose peak of 5 events is below the
\* threshold count
C20_Witness ==
    /\ pc = "charted" /\ chart.rendered
    /\ chart.above_peak
    /\ chart.max_count = 5
    /\ \E c \in DOMAIN chart.counts :
          /\ chart.heights[c] = 8
          /\ CellColor(chart, c, 7) \in {"kept", "dropped"}

----------------------------------------------------------------------------
(* Properties of main's sub-block detection for one block *)

----------------------------------------------------------------------------
(* Further properties of find_active_subblocks *)

\* bins a..b are a run of cold bins inside sub-block k
ColdRunIn(k, a, b) ==
    /\ a <= b
    /\ Covers(k, a) /\ Covers(k, b)
    /\ \A c \in a..b : c \notin HotBins

\* C15: inside every sub-block find_active_subblocks returns, every run of
\* consecutive cold bins between two hot bins covers at most idle_gap
\* minutes: run length * bin width <= idle_gap, for every bin width >= 1.
C15_IdleGapMinutes ==
    (pc = "found" /\ events # <<>>) =>
        \A k \in DOMAIN subblocks :
            \A a \in 0..LastBin : \A b \in a..LastBin :
                ColdRunIn(k, a, b) => (b - a + 1) * bin_minutes <= idle_gap

\* the bound of C15 for idle gaps of at least one minute, where the floor of
\* one bin (C5) plays no part: it fails too, because the budget of
\* ceil(idle_gap / bin_minutes) bins covers more than idle_gap minutes
\* whenever the bin width does not divide the idle gap
C15_IdleGapMinutesPositiveIdle ==
    (pc = "found" /\ events # <<>> /\ idle_gap >= 1) =>
        \A k \in DOMAIN subblocks :
            \A a \in 0..LastBin : \A b \in a..LastBin :
                ColdRunIn(k, a, b) => (b - a + 1) * bin_minutes <= idle_gap

\* events in the bin of width bin_minutes, counted from midnight, that holds
\* the first event
FirstGridBin == (events[1] \div BinSeconds) * BinSeconds

EventsInFirstGridBin ==
    Cardinality({k \in DOMAIN events :
                    FirstGridBin <= events[k] /\ events[k] < FirstGridBin + BinSeconds})

\* C16: for every bin width >= 1 the origin of find_active_subblocks is a
\* whole minute floored to a multiple of the bin width, so the bin grid is
\* the same whichever timestamp comes first.  A call whose first timestamp
\* is 00:00:00 has origin 00:00:00, so the origins of any two calls on one
\* day differ by a multiple of the bin width exactly when every origin, and
\* with it every sub-block boundary, is a multiple of the bin width since
\* midnight; and the first event lies in bin 0, so a sub-block starts at the
\* first event's grid bin when that bin is hot.
C16_StableBinGrid ==
    (pc = "found" /\ events # <<>>) =>
        /\ \A k \in DOMAIN subblocks :
              /\ subblocks[k].start % SecPerMin = 0
              /\ subblocks[k].start % BinSeconds = 0
              /\ subblocks[k].end % BinSeconds = 0
        /\ EventsInFirstGridBin >= min_rate * bin_minutes
              => /\ subblocks # <<>>
                 /\ subblocks[1].start = FirstGridBin

\* number of events with lo <= timestamp < hi
EventsBetween(lo, hi) ==
    Cardinality({k \in DOMAIN events : lo <= events[k] /\ events[k] < hi})

\* the largest count among the bins a..l
MaxEventsInBins(a, l) ==
    CHOOSE m \in {EventsInBin(j) : j \in a..l} :
        \A j \in a..l : EventsInBin(j) <= m

\* the double x is the integer n >= 1
FloatIsInt(x, n) ==
    LET sh == 0 - x.exp - 27
    IN  /\ sh >= 0 /\ sh <= 30 - Log2Floor(n)
        /\ x.lo = 0
        /\ x.hi = n * 2^sh

\* the double x is within one unit in its last place of p / b:
\* |(hi * 2^27 + lo) * b - p * 2^(-exp)| <= b
FloatNearQuotient(x, p, b) ==
    LET sh == 0 - x.exp - 27
        dh == IF sh >= 0 /\ sh <= 30 - Log2Floor(p)
              THEN x.hi * b - p * 2^sh ELSE 1
    IN  /\ dh <= 0 /\ dh >= 0 - b
        /\ dh * HalfWord + x.lo * b <= b
        /\ dh * HalfWord + x.lo * b >= 0 - b

IsPowerOfTwo(n) == n = 2^Log2Floor(n)

\* sub-block k runs from the first hot bin a to the last hot bin l and its
\* query count is the number of events of the bins a..l
SpansBins(k, a, l) ==
    /\ a <= l
    /\ subblocks[k].start = GridOrigin + a * BinSeconds
    /\ subblocks[k].end = GridOrigin + (l + 1) * BinSeconds
    /\ subblocks[k].queries =
           EventsBetween(subblocks[k].start, subblocks[k].end)

\* C17 as stated: every sub-block find_active_subblocks returns covers the
\* bins a..l from its first hot bin a to its last hot bin l: start = origin
\* + a * bin width, end = origin + (l + 1) * bin width, its query count is
\* the sum of the counts of all bins a..l, absorbed cold bins included, and
\* its peak rate per minute times the bin width equals the largest count
\* among the bins a..l.
C17_SubBlockStatistics_Stated ==
    (pc = "found" /\ events # <<>>) =>
        \A k \in DOMAIN subblocks :
            \E a \in HotBins : \E l \in HotBins :
                /\ SpansBins(k, a, l)
                /\ FloatIsInt(FloatMulInt(bin_minutes, subblocks[k].peak),
                              MaxEventsInBins(a, l))

\* C17: start, end and query count as stated; the peak rate per minute is
\* the double within one unit in the last place of (largest count among the
\* bins a..l) / bin width, and times the bin width it equals that count
\* whenever the bin width is a power of two.
C17_SubBlockStatistics ==
    (pc = "found" /\ events # <<>>) =>
        \A k \in DOMAIN subblocks :
            \E a \in HotBins : \E l \in HotBins :
                /\ SpansBins(k, a, l)
                /\ FloatNearQuotient(subblocks[k].peak, MaxEventsInBins(a, l),
                                     bin_minutes)
                /\ IsPowerOfTwo(bin_minutes) =>
                      FloatIsInt(FloatMulInt(bin_minutes, subblocks[k].peak),
                                 MaxEventsInBins(a, l))

\* the sub-block 10:00-10:03 of one-minute bins holding 3, 1 and 3 events
\* with rate 2: the quiet middle minute is counted, and the peak is 3.0
C17_Witness ==
    /\ pc = "found"
    /\ events = ScenarioQuiet
    /\ min_rate = 2 /\ bin_minutes = 1 /\ idle_gap = 1
    /\ Len(subblocks) = 2
    /\ subblocks[1].start = 36000 /\ subblocks[1].end = 36180
    /\ subblocks[1].queries = 7
    /\ FloatIsInt(subblocks[1].peak, 3)

\* the same events in one three-minute bin of 7 events: the peak
\* 7 * (1 / 3) is not 7 / 3 rounded, and times 3 it is not 7
C17_InexactPeakReached ==
    /\ pc = "found"
    /\ events = ScenarioQuiet
    /\ bin_minutes = 3
    /\ Len(subblocks) = 1
    /\ subblocks[1].queries = 7
    /\ ~FloatIsInt(FloatMulInt(3, subblocks[1].peak), 7)

----------------------------------------------------------------------------
(* Properties of the three functions on one input *)

\* C11: for an empty event sequence build_blocks returns two empty lists,
\* find_active_subblocks returns an empty list, and the chart, when the
\* display is wide enough for one, has every bucket count 0 and every bar
\* height 0 with the peak taken as 1; every step is defined (no division by
\* zero, no access to a first event).
C11_EmptyInput ==
    (events = <<>>) =>
        /\ pc \in {"blocks", "found", "charted"} =>
              /\ raw_blocks = <<>>
              /\ kept = <<>>
              /\ dropped = <<>>
        /\ pc \in {"found", "charted"} => subblocks = <<>>
        /\ pc = "charted" =>
              /\ chart.rendered <=> term_cols >= 32
              /\ chart.rendered =>
                    /\ chart.n_bins >= 1
                    /\ DOMAIN chart.counts = 0..(chart.n_bins - 1)
                    /\ \A c \in DOMAIN chart.counts :
                          chart.counts[c] = 0 /\ chart.heights[c] = 0
                    /\ chart.max_count = 1
                    /\ \A c \in DOMAIN chart.counts :
                          \A k \in DOMAIN chart.rows :
                              CellChar(chart, c, chart.rows[k]) = "space"

\* the three functions have run on the empty day and the chart was drawn
C11_Witness ==
    /\ events = <<>>
    /\ pc = "charted"
    /\ chart.rendered
    /\ kept = <<>> /\ dropped = <<>> /\ subblocks = <<>>
    /\ chart.max_count = 1

----------------------------------------------------------------------------
(* Properties of the settings and of collect_events *)

\* log entry k is of the client, of the target day and passes the
\* allowed / blocked filter
Counted(k) ==
    /\ log[k].IP = ClientIp
    /\ log[k].T # None
    /\ log[k].T >= 0 /\ log[k].T < 86400
    /\ query_filter = "allowed" => ~log[k].IsFiltered
    /\ query_filter = "blocked" => log[k].IsFiltered

\* the hostname of entry k is the domain or one of its subdomains
UnderDomain(k) ==
    LET h == log[k].QH
        d == args.domain.name
    IN  IF d = <<>> THEN h = <<>>
        ELSE /\ Len(h) >= Len(d)
             /\ \A i \in 1..Len(d) : h[Len(h) - Len(d) + i] = d[i]

\* with --domain no entry is removed as background: bg_filtered is 0 and
\* every counted entry under the domain is an event
NoBackgroundFiltering ==
    (pc = "collected" /\ args.domain.given) =>
        /\ bg_filtered = 0
        /\ Len(events) = Cardinality({k \in DOMAIN log : Counted(k) /\ UnderDomain(k)})
        /\ total_seen = Cardinality({k \in DOMAIN log : Counted(k)})

\* C13 as stated: whenever --domain is given and --min-queries is not given
\* on the command line, the resolved minimum block query count is 1, and no
\* event is removed by the background-hostname filter whatever bg_filter is.
C13_DomainDefaults_Stated ==
    /\ (pc \in {"resolved", "collected"} /\ args.domain.given
            /\ args.min_queries = None)
          => min_queries = 1
    /\ NoBackgroundFiltering

\* what main does instead: the minimum is 1 when --domain has a non-empty
\* value and min_queries is set neither on the command line nor in the
\* config file; a min_queries of the config file takes precedence over
\* --domain; the background filter is skipped whenever --domain is given.
C13_DomainDefaultsUnlessConfigured ==
    /\ (pc \in {"resolved", "collected"} /\ args.min_queries = None) =>
          /\ (args.domain.given /\ args.domain.name # <<>>
                  /\ "min_queries" \notin DOMAIN cfg)
                => min_queries = 1
          /\ "min_queries" \in DOMAIN cfg => min_queries = cfg.min_queries
    /\ NoBackgroundFiltering

\* a run with --domain roblox.com and no min_queries anywhere, the
\* background filter on, whose log has a certificate check under the domain
\* (kept as an event) and a captive-portal probe (seen, not counted as
\* background)
C13_DomainRunReached ==
    /\ pc = "collected"
    /\ args.domain.given /\ args.domain.name = <<"roblox", "com">>
    /\ args.min_queries = None /\ "min_queries" \notin DOMAIN cfg
    /\ min_queries = 1
    /\ bg_filter
    /\ events = <<36060>>
    /\ total_seen = 2
    /\ bg_filtered = 0

----------------------------------------------------------------------------
(* Properties of the membership overlay of _print_day_chart *)

\* bucket c lies in floor(start / bin width)..floor(end / bin width) of a
\* block of the list; start and end are seconds, the bin width is minutes
InRangeOf(blocks, c) ==
    \E k \in DOMAIN blocks :
        /\ blocks[k].start \div (SecPerMin * chart.snap) <= c
        /\ c <= blocks[k].end \div (SecPerMin * chart.snap)

\* C21: a chart bucket is marked kept exactly when it lies in the bucket
\* range of some kept block, dropped exactly when it lies in the range of
\* some dropped block and of no kept block, and neither otherwise; no bucket
\* is marked both kept and dropped.  The marks are the flags in_block and
\* in_dropped, the colour of the bucket and its character in the indicator
\* row.
C21_MembershipOverlay ==
    (pc = "charted" /\ chart.rendered) =>
        /\ DOMAIN chart.in_block = 0..(chart.n_bins - 1)
        /\ DOMAIN chart.in_dropped = 0..(chart.n_bins - 1)
        /\ \A c \in 0..(chart.n_bins - 1) :
              /\ chart.in_block[c] <=> InRangeOf(kept, c)
              /\ chart.in_dropped[c]
                    <=> (InRangeOf(dropped, c) /\ ~InRangeOf(kept, c))
              /\ ~(chart.in_block[c] /\ chart.in_dropped[c])
              /\ (ColColor(chart, c) = "kept") <=> InRangeOf(kept, c)
              /\ (ColColor(chart, c) = "dropped")
                    <=> (InRangeOf(dropped, c) /\ ~InRangeOf(kept, c))
              /\ (ColColor(chart, c) = "none")
                    <=> (~InRangeOf(dropped, c) /\ ~InRangeOf(kept, c))
              /\ (IndChar(chart, c) = "dark") <=> (ColColor(chart, c) = "kept")
              /\ (IndChar(chart, c) = "medium")
                    <=> (ColColor(chart, c) = "dropped")
              /\ (IndChar(chart, c) = "light") <=> (ColColor(chart, c) = "none")

\* a chart with a bucket in the range of a kept and of a dropped block, a
\* bucket of a dropped block only, a kept block over more than one bucket,
\* and a bucket of no block
C21_Witness ==
    /\ pc = "charted" /\ chart.rendered
    /\ \E c \in 0..(chart.n_bins - 1) :
          /\ InRangeOf(kept, c) /\ InRangeOf(dropped, c)
          /\ IndChar(chart, c) = "dark"
    /\ \E c \in 0..(chart.n_bins - 1) :
          /\ InRangeOf(dropped, c) /\ IndChar(chart, c) = "medium"
    /\ \E c \in 0..(chart.n_bins - 1) : IndChar(chart, c) = "light"
    /\ \E k \in DOMAIN kept :
          kept[k].start \div (SecPerMin * chart.snap)
              < kept[k].end \div (SecPerMin * chart.snap)

----------------------------------------------------------------------------
(* Properties of the hour labels of _print_day_chart *)

\* the assignments of the label loop for the chart drawn
ChartLabelWrites == LabelWrites(chart.snap, chart.n_bins, chart.h_step)

\* C22: hour labels are generated for the hours 0, step, 2 * step, ... up to
\* 24, each starting at bucket floor(hour * 60 / bin width) clamped to the
\* last bucket index, and no label character is written at a column >= the
\* bucket count; the label row holds the last character written to each
\* column and a space where nothing was written.
C22_LabelsInsidePlot ==
    (pc = "charted" /\ chart.rendered) =>
        LET writes == ChartLabelWrites
        IN  /\ DOMAIN chart.lbl_chars = 0..(chart.n_bins - 1)
            /\ {writes[j].h : j \in DOMAIN writes}
                  = {h \in 0..24 : h % chart.h_step = 0}
            /\ \A j \in DOMAIN writes :
                  /\ writes[j].col \in 0..(chart.n_bins - 1)
                  /\ writes[j].col =
                        Min((writes[j].h * 60) \div chart.snap,
                            chart.n_bins - 1) + writes[j].i
                  /\ writes[j].ch = Label(writes[j].h)[writes[j].i + 1]
                  /\ (\A l \in (j + 1)..Len(writes) :
                          writes[l].col # writes[j].col)
                        => chart.lbl_chars[writes[j].col] = writes[j].ch
            /\ \A h \in {g \in 0..24 : g % chart.h_step = 0} :
                  \E j \in DOMAIN writes : writes[j].h = h /\ writes[j].i = 0
            /\ \A c \in DOMAIN chart.lbl_chars :
                  chart.lbl_chars[c] # " "
                      => \E j \in DOMAIN writes : writes[j].col = c

\* a chart whose label of 24 h is clamped to the last bucket and loses its
\* last two characters, while the label of 00 h is written whole
C22_Witness ==
    /\ pc = "charted" /\ chart.rendered
    /\ chart.n_bins >= 24
    /\ (24 * 60) \div chart.snap >= chart.n_bins
    /\ chart.lbl_chars[chart.n_bins - 1] = "2"
    /\ chart.lbl_chars[0] = "0" /\ chart.lbl_chars[1] = "0"
    /\ chart.lbl_chars[2] = "h"
    /\ Len(ChartLabelWrites) < 3 * Len(LabelHours(chart.h_step))

\* the bucket counts of the charts that have at least MinPlotWidth columns
ChartBucketCounts ==
    {NBins(Snap(PlotWidth(w), g)) :
        w \in (MinPlotWidth + Y_W + 1)..MaxTermCols,
        g \in (1..MaxChartGap) \cup LargeGaps}

\* C23 as stated: of two charts, the one with more buckets uses a step (hours
\* between labels) greater than or equal to the step of the one with fewer
\* buckets.  The chart drawn is compared with the chart of every bucket count.
C23_CoarserWhenLarge_Stated ==
    (pc = "charted" /\ chart.rendered) =>
        \A m \in ChartBucketCounts :
            m >= chart.n_bins => HStep(m) >= chart.h_step

\* C23, amended: the step is 3 hours for 48 buckets or more and 6 hours for
\* fewer, so of two charts the one with more buckets uses a step less than
\* or equal to the step of the one with fewer buckets.
C23_FinerWhenLarge ==
    (pc = "charted" /\ chart.rendered) =>
        /\ chart.n_bins >= 48 => chart.h_step = 3
        /\ chart.n_bins < 48 => chart.h_step = 6
        /\ \A m \in ChartBucketCounts :
              /\ m >= chart.n_bins => HStep(m) <= chart.h_step
              /\ m <= chart.n_bins => HStep(m) >= chart.h_step

\* a chart of fewer than 48 buckets labelled every 6 hours ("06h" follows
\* "00h"), while charts of more buckets exist and are labelled every 3 hours
C23_Witness ==
    /\ pc = "charted" /\ chart.rendered
    /\ chart.n_bins = 24 /\ chart.h_step = 6
    /\ chart.lbl_chars[6] = "0" /\ chart.lbl_chars[7] = "6"
    /\ chart.lbl_chars[3] = " "
    /\ \E m \in ChartBucketCounts : m > chart.n_bins /\ HStep(m) = 3

----------------------------------------------------------------------------
(* Soundness of the threshold highlight of _print_day_chart *)

\* bucket c has a cell coloured above-threshold in some chart row
HasHotCell(c) ==
    \E k \in DOMAIN chart.rows : CellColor(chart, c, chart.rows[k]) = "hot"

\* C24: a chart bucket has a cell classified above-threshold only if its
\* count is at least activeRate * binWidth: only buckets that are hot at the
\* chart's bin width are highlighted.
C24_HighlightSoundness ==
    (pc = "charted" /\ chart.rendered) =>
        \A c \in DOMAIN chart.counts :
            HasHotCell(c) => chart.counts[c] >= min_rate * chart.snap

\* a chart with a highlighted bucket beside a filled bucket whose count is
\* below the threshold count and that has no highlighted cell
C24_Witness ==
    /\ pc = "charted" /\ chart.rendered
    /\ \E c \in DOMAIN chart.counts :
          HasHotCell(c) /\ chart.counts[c] >= min_rate * chart.snap
    /\ \E d \in DOMAIN chart.counts :
          /\ chart.heights[d] > 0
          /\ chart.counts[d] < min_rate * chart.snap
          /\ ~HasHotCell(d)

----------------------------------------------------------------------------
(* The chart drawn by main from the lists of build_blocks *)

\* C25: when the kept and dropped lists passed to the chart are the output
\* of build_blocks on the events charted, every chart bucket with a non-zero
\* count is marked kept or dropped, and no filled cell is rendered with the
\* style of a bucket outside every block.
C25_MembershipCoversActivity ==
    (pc = "charted" /\ chart.rendered) =>
        \A c \in DOMAIN chart.counts :
            /\ chart.counts[c] > 0
                  => (chart.in_block[c] \/ chart.in_dropped[c])
            /\ chart.heights[c] > 0 =>
                  \A k \in DOMAIN chart.rows :
                      /\ CellColor(chart, c, chart.rows[k]) # "dim"
                      /\ (CellChar(chart, c, chart.rows[k]) = "full")
                            => CellColor(chart, c, chart.rows[k])
                                  \in {"hot", "kept", "dropped"}
            /\ chart.heights[c] = 0 =>
                  \A k \in DOMAIN chart.rows :
                      CellChar(chart, c, chart.rows[k]) = "space"

\* a chart drawn after build_blocks with filled cells in a kept and in a
\* dropped bucket, and buckets outside every block
C25_Witness ==
    /\ pc = "charted" /\ chart.rendered
    /\ kept # <<>> /\ dropped # <<>>
    /\ \E c \in DOMAIN chart.counts :
          chart.in_block[c] /\ CellChar(chart, c, 0) = "full"
    /\ \E c \in DOMAIN chart.counts :
          chart.in_dropped[c] /\ CellChar(chart, c, 0) = "full"
    /\ \E c \in DOMAIN chart.counts :
          ~chart.in_block[c] /\ ~chart.in_dropped[c]

----------------------------------------------------------------------------
(* Properties of collect_domain_counts *)

\* log entry k matches the client IP and the date
TopMatching(k) ==
    /\ log[k].IP = ClientIp
    /\ log[k].T # None
    /\ log[k].T \div DaySeconds = 0

\* a matching entry that the allowed / blocked filter excludes
TopExcluded(k) ==
    /\ TopMatching(k)
    /\ \/ query_filter = "allowed" /\ log[k].IsFiltered
       \/ query_filter = "blocked" /\ ~log[k].IsFiltered

\* a matching entry past the filter that the background filter removes
TopBackground(k) ==
    /\ TopMatching(k) /\ ~TopExcluded(k)
    /\ bg_filter /\ is_background(Hostname(log[k].QH))

\* a matching entry that neither filter stops
TopCounted(k) == TopMatching(k) /\ ~TopExcluded(k) /\ ~TopBackground(k)

\* C26: after collect_domain_counts every entry matching the client IP and
\* the date is counted in total_raw and in exactly one of: excluded by the
\* allowed / blocked filter, bg_filtered, or hostname_counts (under its
\* hostname); hence sum(hostname_counts) + bg_filtered <= total_raw, with
\* equality when query_filter is "all", and when grouping by root domain
\* sum(root_counts) = sum(hostname_counts).  print_report's total_filtered
\* is that sum.
C26_TopDomainsAccounting ==
    (pc \in {"counted", "reported"}) =>
        LET lines == DOMAIN log
            total == SumCounter(hostname_counts)
        IN  /\ total_raw = Cardinality({k \in lines : TopMatching(k)})
            /\ bg_filtered = Cardinality({k \in lines : TopBackground(k)})
            /\ total = Cardinality({k \in lines : TopCounted(k)})
            /\ DOMAIN hostname_counts
                  = {Hostname(log[k].QH) : k \in {j \in lines : TopCounted(j)}}
            /\ \A h \in DOMAIN hostname_counts :
                  hostname_counts[h]
                      = Cardinality({k \in lines :
                            TopCounted(k) /\ Hostname(log[k].QH) = h})
            /\ total + bg_filtered
                  + Cardinality({k \in lines : TopExcluded(k)}) = total_raw
            /\ total + bg_filtered <= total_raw
            /\ query_filter = "all" => total + bg_filtered = total_raw
            /\ group_subdomains => SumCounter(root_counts) = total
            /\ pc = "reported" => total_filtered = total

\* a report of three matching entries: one excluded by the filter, one
\* removed as background and one counted, under a root domain that is not
\* its hostname
C26_Witness ==
    /\ pc = "reported"
    /\ total_raw = 3 /\ bg_filtered = 1 /\ total_filtered = 1
    /\ \E k \in DOMAIN log : TopExcluded(k)
    /\ \E k \in DOMAIN log : TopBackground(k)
    /\ \E k \in DOMAIN log : TopCounted(k)
    /\ group_subdomains
    /\ DOMAIN root_counts # DOMAIN hostname_counts

====
